---- MODULE Spec2Model ----
(***************************************************************************)
(* Model of the MPD protocol client (client.go) and of the playcount       *)
(* tracker (playcount.go).                                                 *)
(*                                                                         *)
(* Part 1: one connection shared by the background idle() loop, Cmd        *)
(*         callers, Idle() subscribers and Close().                        *)
(***************************************************************************)
EXTENDS Integers, Sequences, FiniteSets, TLC

\* ------------------------------------------------------------------ bounds
NumCallers == 1        \* tasks that each run one Status() on the connection
MaxSubs == 2           \* Idle() registrations made on the connection
MaxInterest == 2       \* longest subsystems list passed to Idle()

Callers == 1..NumCallers
Subsystems == {"player", "mixer"}
InterestLists == UNION {[1..n -> Subsystems] : n \in 0..MaxInterest}
NoId == -1

VARIABLES
  \* --- textproto.Conn / Pipeline
  nextId,        \* Pipeline.Next: id handed to the next conn.Cmd
  respTurn,      \* response sequencer: id whose StartResponse may proceed
  inbuf,         \* command lines written to the wire, not yet taken by the daemon
  outbuf,        \* reply lines sent by the daemon, not yet read by the client
  sess,          \* "open" | "closed" : state of the socket
  \* --- daemon side of the session
  dIdle,         \* NoId, or the id of the idle command the daemon is waiting in
  \* --- MPDClient.idle goroutine
  idlePc, idleId, idleChanged, dispI, dispN, dispActive,
  subscriptions, \* c.subscriptions
  \* --- MPDClient.Close and its quit goroutine
  closePc, closeId, quitPc,
  \* --- Cmd callers (each runs Status())
  callPc, callId, callRead, calledInWait,
  \* --- history: Close was called while the idle loop was waiting
  closedInWait,
  \* --- considerSongPlayed applied to a status
  pvIn,          \* the elapsed and total seconds the daemon reported, if any
  pvStatus,      \* the status Info
  pvPlayed,      \* "unset", or the result of considerSongPlayed
  \* --- StickerGet applied to a reply
  sgStream,      \* the lines the daemon sends before the socket fails
  sgResult,      \* what StickerGet returns and how many lines it read
  \* --- daemon: player and sticker database
  player,        \* [songid, elapsed, state]
  stickers,      \* file -> [has, val]: the "playcount" sticker of each song
  idleCh,        \* a "player" notification is pending for the tracker
  changes,       \* song changes made so far (bounded)
  \* --- RecordPlayCounts
  siStatus,      \* si.StatusInfo
  siSong,        \* si.SongInfo
  ignorePoll,
  trPc,          \* "init1" | "init2" | "select" | "song" | "dead"
  trigger,       \* "poll" | "idle": the select case being served
  \* --- history
  siNum,         \* song id, elapsed and total the daemon held for siStatus
  incCalls,      \* calls of incSongPlayCount so far
  incRet,        \* [err, val]: what the last incSongPlayCount returned
  incV0,         \* counter value before the first increment
  incN,          \* increments that returned without error
  trCmds,        \* commands the last step of the tracker wrote
  pd,            \* the played decision of the last update step, if one was
                 \* made: the status it was made on, the status fetched by
                 \* that step
  \* --- a failed call followed by the next command on the connection
  rsOp,          \* the operation whose reply is malformed
  rsStream,      \* the reply lines the daemon sent for it
  rsPc,          \* "first" | "next" | "done" | "blocked"
  rsErr,         \* the error the operation returned
  rsLeft,        \* lines of that reply still unread on the connection
  rsNextRead,    \* the lines the next command consumed as its reply
  \* --- StickerSet followed by StickerGet
  rtUri, rtValue, rtPc, rtRead,
  \* --- tasks calling Idle() concurrently
  subPc,         \* per task: "start" | "loaded" | "done"
  subSeen,       \* per task: len(c.subscriptions) as read by append
  \* --- the tracker's notification goroutine and the daemon's memory
  ntPc,          \* notification goroutine: "subscribe" | "wait"
  dPending       \* a "player" change the daemon has not reported yet

connVars == <<nextId, respTurn, inbuf, outbuf, sess, dIdle, idlePc, idleId,
              idleChanged, dispI, dispN, dispActive, subscriptions, closePc,
              closeId, quitPc, callPc, callId, callRead, calledInWait,
              closedInWait>>

playedVars == <<pvIn, pvStatus, pvPlayed>>
stickerGetVars == <<sgStream, sgResult>>
trackVars == <<player, stickers, idleCh, changes, siStatus, siSong, ignorePoll,
               trPc, trigger, siNum, incCalls, incRet, incV0, incN, trCmds,
               pd>>
resyncVars == <<rsOp, rsStream, rsPc, rsErr, rsLeft, rsNextRead>>
roundTripVars == <<rtUri, rtValue, rtPc, rtRead>>
subscribeVars == <<subPc, subSeen>>
notifyVars == <<ntPc, dPending>>
taskVars == <<resyncVars, roundTripVars, subscribeVars, notifyVars>>
nonConnVars == <<playedVars, stickerGetVars, trackVars, taskVars>>

\* ================================================================ strings
\* A string is a sequence of characters. The multi-character markers the
\* code searches for are single symbols: "ACK", "nss" (the text
\* "no such sticker"), "st" (the text "sticker: ") and "OK".
Digits == <<"0", "1", "2", "3", "4", "5", "6", "7", "8", "9">>
IsDigit(ch) == \E d \in 1..10 : Digits[d] = ch
DigitVal(ch) == (CHOOSE d \in 1..10 : Digits[d] = ch) - 1

\* strings.Index(s, ch) for a one-symbol needle, 1-based; 0 stands for -1.
IndexOf(s, ch) ==
  IF \E i \in 1..Len(s) : s[i] = ch
  THEN CHOOSE i \in 1..Len(s) : s[i] = ch /\ \A j \in 1..(i - 1) : s[j] # ch
  ELSE 0

\* Index of the last occurrence, 0 if none.
LastIndexOf(s, ch) ==
  IF \E i \in 1..Len(s) : s[i] = ch
  THEN CHOOSE i \in 1..Len(s) : s[i] = ch /\ \A j \in (i + 1)..Len(s) : s[j] # ch
  ELSE 0

Contains(s, ch) == IndexOf(s, ch) # 0

\* strconv.Itoa
RECURSIVE ItoaNat(_)
ItoaNat(n) ==
  IF n < 10 THEN <<Digits[n + 1]>>
  ELSE Append(ItoaNat(n \div 10), Digits[(n % 10) + 1])
Itoa(n) == IF n < 0 THEN <<"-">> \o ItoaNat(0 - n) ELSE ItoaNat(n)

\* Value of a non-empty string of digits.
RECURSIVE DigitsVal(_)
DigitsVal(s) ==
  IF Len(s) = 0 THEN 0
  ELSE 10 * DigitsVal(SubSeq(s, 1, Len(s) - 1)) + DigitVal(s[Len(s)])

AllDigits(s) == Len(s) > 0 /\ \A i \in 1..Len(s) : IsDigit(s[i])

\* strconv.Atoi: an optional sign, then one or more digits; anything else
\* is a syntax error (value 0).
Atoi(s) ==
  LET neg == Len(s) > 0 /\ s[1] = "-"
      body == IF neg THEN Tail(s) ELSE s
  IN IF AllDigits(body)
     THEN [ok |-> TRUE, val |-> IF neg THEN 0 - DigitsVal(body) ELSE DigitsVal(body)]
     ELSE [ok |-> FALSE, val |-> 0]

\* strconv.ParseFloat followed by int(): over the characters modelled
\* (digits, "-", "x", ":", "=") a float is an optional sign and digits.
ParseFloat(s) == Atoi(s)

\* ========================================================= Info.Progress
\* Info: a map from key to value, both strings.
NoInfo == [k \in {} |-> <<>>]
InfoWith(k, v) == [x \in {k} |-> v]
\* info[k] of a Go map: the empty string when the key is absent.
Get(info, k) == IF k \in DOMAIN info THEN info[k] ELSE <<>>

\* Info.Progress: the "time" field split at its first ":". The error of
\* the first ParseFloat is overwritten by the second; only a bad total
\* gives (0, 0). A field without ":" slices t[0:-1] and panics.
Progress(info) ==
  IF <<"time">> \in DOMAIN info
  THEN LET t == info[<<"time">>]
           fieldSepIndex == IndexOf(t, ":")
       IN IF fieldSepIndex = 0
          THEN [panic |-> TRUE, current |-> 0, total |-> 0]
          ELSE LET current == ParseFloat(SubSeq(t, 1, fieldSepIndex - 1))
                   total == ParseFloat(SubSeq(t, fieldSepIndex + 1, Len(t)))
               IN IF ~total.ok
                  THEN [panic |-> FALSE, current |-> 0, total |-> 0]
                  ELSE [panic |-> FALSE, current |-> current.val,
                        total |-> total.val]
  ELSE [panic |-> FALSE, current |-> 0, total |-> 0]

songPlayedThresholdSeconds == 10

\* considerSongPlayed with the zero checks dropped.
considerSongPlayedNoZeroCheck(statusInfo, limit) ==
  LET p == Progress(statusInfo) IN (p.total - p.current) < limit

\* considerSongPlayed (a panic of Progress propagates; it cannot occur on
\* the statuses a daemon sends).
considerSongPlayed(statusInfo, limit) ==
  LET p == Progress(statusInfo)
  IN IF p.total = 0 \/ p.current = 0 THEN FALSE
     ELSE (p.total - p.current) < limit

\* The daemon's status reply while a song is loaded: "time: <elapsed>:<total>".
FormatTime(e, t) == Itoa(e) \o <<":">> \o Itoa(t)

\* ====================================================== MPDClient.StickerGet
\* stickerGetRegexp "sticker: (.+)=(.*)": leftmost "sticker: ", then the
\* greedy (.+) runs to the last "=" that leaves it at least one character.
stickerGetRegexp(line) ==
  LET p == IndexOf(line, "st")
      q == LastIndexOf(line, "=")
  IN IF p # 0 /\ q >= p + 2
     THEN [matched |-> TRUE, name |-> SubSeq(line, p + 1, q - 1),
           value |-> SubSeq(line, q + 1, Len(line))]
     ELSE [matched |-> FALSE, name |-> <<>>, value |-> <<>>]

isMPDError(line) == Contains(line, "ACK")

\* conn.ReadLine on a reply of which n lines have been read: the next line,
\* or an error (and the empty string) when the daemon sent no more.
ReadLineAt(stream, n) ==
  IF n < Len(stream) THEN [err |-> FALSE, line |-> stream[n + 1]]
                     ELSE [err |-> TRUE, line |-> <<>>]

SGResult(v, e, l, n) == [value |-> v, err |-> e, errLine |-> l, consumed |-> n]

\* StickerGet that treats every error reply alike.
StickerGetNoSuchStickerIsError(stream) ==
  LET r1 == ReadLineAt(stream, 0)
      n1 == IF r1.err THEN 0 ELSE 1
      match == stickerGetRegexp(r1.line)
  IN IF ~match.matched
     THEN IF ~isMPDError(r1.line) THEN SGResult(<<>>, "nil", <<>>, n1)
          ELSE SGResult(<<>>, "StickerGet", r1.line, n1)
     ELSE LET r2 == ReadLineAt(stream, 1)
          IN IF r2.err THEN SGResult(<<>>, "io", <<>>, 1)
             ELSE IF r2.line # <<"OK">> THEN SGResult(<<>>, "noOK", r2.line, 2)
             ELSE SGResult(match.value, "nil", <<>>, 2)

\* StickerGet after Cmd and startResponse: what it returns on the reply
\* `stream`, and how many lines it consumed. The error of the first
\* ReadLine is dropped by the code; the line is then "".
StickerGet(stream) ==
  LET r1 == ReadLineAt(stream, 0)
      n1 == IF r1.err THEN 0 ELSE 1
      match == stickerGetRegexp(r1.line)
  IN IF ~match.matched
     THEN IF ~isMPDError(r1.line) THEN SGResult(<<>>, "nil", <<>>, n1)
          ELSE IF Contains(r1.line, "nss") THEN SGResult(<<>>, "nil", <<>>, n1)
          ELSE SGResult(<<>>, "StickerGet", r1.line, n1)
     ELSE LET r2 == ReadLineAt(stream, 1)
          IN IF r2.err THEN SGResult(<<>>, "io", <<>>, 1)
             ELSE IF r2.line # <<"OK">> THEN SGResult(<<>>, "noOK", r2.line, 2)
             ELSE SGResult(match.value, "nil", <<>>, 2)

playcountSticker == <<"playcount">>

\* Replies of the daemon to "sticker get": the sticker line and OK, or one
\* error line.
StickerLine(name, value) == <<"st">> \o name \o <<"=">> \o value
AckLine(msg) == <<"ACK", msg>>
AckLines == {AckLine(msg) : msg \in {"nss", "nosong", "perm"}}

\* ===================================================== fillInfoUntilOK
infoFieldSep == ": "

\* Info.AddInfo: split at the first ": "; a line without it is an error.
AddInfo(info, data) ==
  LET fieldSepIndex == IndexOf(data, infoFieldSep)
      key == SubSeq(data, 1, fieldSepIndex - 1)
  IN IF fieldSepIndex = 0
     THEN [err |-> TRUE, info |-> info]
     ELSE [err |-> FALSE,
           info |-> [k \in DOMAIN info \cup {key} |->
                       IF k = key THEN SubSeq(data, fieldSepIndex + 1, Len(data))
                                  ELSE info[k]]]

\* fillInfoUntilOK on a reply of which n lines have been read.
RECURSIVE fillInfoFrom(_, _, _)
fillInfoFrom(stream, n, info) ==
  LET r == ReadLineAt(stream, n) IN
    IF r.err THEN [err |-> "io", info |-> info, consumed |-> n]
    ELSE IF r.line = <<"OK">> THEN [err |-> "nil", info |-> info, consumed |-> n + 1]
    ELSE LET a == AddInfo(info, r.line) IN
           IF a.err THEN [err |-> "AddInfo", info |-> info, consumed |-> n + 1]
           ELSE fillInfoFrom(stream, n + 1, a.info)

fillInfoUntilOK(stream) == fillInfoFrom(stream, 0, NoInfo)

\* ============================================ daemon: player and stickers
NumSongs == 2          \* songs in the queue
Songs == 1..NumSongs
\* Every song lasts two seconds more than the played threshold, and the
\* player is observed at the start and on both sides of the threshold.
SongLen == songPlayedThresholdSeconds + 2
ElapsedPoints ==
  {0, SongLen - songPlayedThresholdSeconds,
   SongLen - songPlayedThresholdSeconds + 1}
PlayerStates == {"play", "pause", "stop"}
FileOf(id) == <<"f">> \o Itoa(id)
Files == {FileOf(id) : id \in Songs}

\* Reply to "status": songid, state and, unless stopped, time.
DaemonStatus(pl) ==
  <<<<"songid", ": ">> \o Itoa(pl.songid), <<"state", ": ", pl.state>>>>
  \o (IF pl.state # "stop"
      THEN <<<<"time", ": ">> \o FormatTime(pl.elapsed, SongLen)>>
      ELSE <<>>)
  \o <<<<"OK">>>>

\* Reply to "currentsong".
DaemonCurrentSong(pl) == <<<<"file", ": ">> \o FileOf(pl.songid), <<"OK">>>>

\* Reply to sticker get "song" <uri> "playcount".
DaemonStickerGet(store, uri) ==
  IF uri \notin DOMAIN store THEN <<AckLine("nosong")>>
  ELSE IF ~store[uri].has THEN <<AckLine("nss")>>
  ELSE <<StickerLine(playcountSticker, store[uri].val), <<"OK">>>>

\* sticker set "song" <uri> "playcount" <value>: the new store and the reply.
DaemonStickerSet(store, uri, value) ==
  IF uri \notin DOMAIN store
  THEN [store |-> store, reply |-> <<AckLine("nosong")>>]
  ELSE [store |-> [store EXCEPT ![uri] = [has |-> TRUE, val |-> value]],
        reply |-> <<<<"OK">>>>]

\* ================================================== Status, CurrentSong
\* Status / CurrentSong after Cmd: the Info, or nil and the error.
Status(pl) ==
  LET r == fillInfoUntilOK(DaemonStatus(pl))
  IN [err |-> r.err # "nil", info |-> IF r.err = "nil" THEN r.info ELSE NoInfo]

CurrentSong(pl) ==
  LET r == fillInfoUntilOK(DaemonCurrentSong(pl))
  IN [err |-> r.err # "nil", info |-> IF r.err = "nil" THEN r.info ELSE NoInfo]

\* StickerSet: the one reply line must be "OK".
StickerSet(stream) ==
  LET r == ReadLineAt(stream, 0) IN [err |-> r.line # <<"OK">>]

\* ===================================================== incSongPlayCount
\* cmds: the commands written.
IncResult(e, v, st, c) == [err |-> e, val |-> v, store |-> st, cmds |-> c]

\* incSongPlayCount that writes the value it read back unchanged.
incSongPlayCountNoAdd(songInfo, store) ==
  LET uri == Get(songInfo, <<"file">>)
      g == StickerGet(DaemonStickerGet(store, uri))
      value == IF Len(g.value) = 0 THEN <<"0">> ELSE g.value
      a == Atoi(value)
  IN IF g.err # "nil" THEN IncResult(TRUE, 0 - 1, store, <<"sticker get">>)
     ELSE IF ~a.ok THEN IncResult(TRUE, 0 - 1, store, <<"sticker get">>)
     ELSE LET w == DaemonStickerSet(store, uri, Itoa(a.val))
          IN IncResult(StickerSet(w.reply).err, a.val, w.store,
                       <<"sticker get", "sticker set">>)

\* incSongPlayCount: StickerGet, "" read as "0", Atoi, add one, StickerSet.
incSongPlayCount(songInfo, store) ==
  LET uri == Get(songInfo, <<"file">>)
      g == StickerGet(DaemonStickerGet(store, uri))
      value == IF Len(g.value) = 0 THEN <<"0">> ELSE g.value
      a == Atoi(value)
      intval == a.val + 1
  IN IF g.err # "nil" THEN IncResult(TRUE, 0 - 1, store, <<"sticker get">>)
     ELSE IF ~a.ok THEN IncResult(TRUE, 0 - 1, store, <<"sticker get">>)
     ELSE LET w == DaemonStickerSet(store, uri, Itoa(intval))
          IN IncResult(StickerSet(w.reply).err, intval, w.store,
                       <<"sticker get", "sticker set">>)

\* ====================================================== checkSongChange
\* The error test after incSongPlayCount, with the error dropped.
IncFailedSwallowed(inc) == FALSE
\* if err != nil { return err } after incSongPlayCount.
IncFailed(inc) == inc.err

\* The status the played check is made on: the fresh one.
PlayedCheckStatusFresh(info, statusInfo) == info
\* The status the played check is made on: &si.StatusInfo, the recorded one.
PlayedCheckStatus(info, statusInfo) == statusInfo

\* The song-change test of checkSongChange.
SongChangedAlways(info, statusInfo) == TRUE
SongChanged(info, statusInfo) ==
  Get(info, <<"songid">>) # Get(statusInfo, <<"songid">>)

\* The body of checkSongChange, given the result st of mpdc.Status() and
\* the result inc that incSongPlayCount(mpdc, si.SongInfo) has if called.
checkSongChangeOn(statusInfo, store, st, inc) ==
  LET edge == SongChanged(st.info, statusInfo)
      on == PlayedCheckStatus(st.info, statusInfo)
      played == edge /\ considerSongPlayed(on, songPlayedThresholdSeconds)
      decision == IF edge THEN [made |-> TRUE, on |-> on, fresh |-> st.info]
                          ELSE [made |-> FALSE, on |-> NoInfo, fresh |-> NoInfo]
  IN IF st.err
     THEN [err |-> TRUE, status |-> statusInfo, store |-> store,
           called |-> FALSE, ret |-> [err |-> FALSE, val |-> 0],
           cmds |-> <<"status">>,
           decision |-> [made |-> FALSE, on |-> NoInfo, fresh |-> NoInfo]]
     ELSE IF played
     THEN [err |-> IncFailed(inc),
           status |-> IF IncFailed(inc) THEN statusInfo ELSE st.info,
           store |-> inc.store, called |-> TRUE,
           ret |-> [err |-> inc.err, val |-> inc.val],
           cmds |-> <<"status">> \o inc.cmds, decision |-> decision]
     ELSE [err |-> FALSE, status |-> st.info, store |-> store,
           called |-> FALSE, ret |-> [err |-> FALSE, val |-> 0],
           cmds |-> <<"status">>, decision |-> decision]

\* checkSongChange(si, mpdc): fresh status; on a song id edge whose
\* previous status counts as played, incSongPlayCount on si.SongInfo; then
\* si.StatusInfo = info. An error returns before the assignment.
checkSongChange(statusInfo, songInfo, pl, store) ==
  checkSongChangeOn(statusInfo, store, Status(pl),
                    incSongPlayCount(songInfo, store))

\* ------------------------------------------------------------ wire lines
OKLine(id) == [owner |-> id, key |-> "OK", val |-> ""]
KVLine(id, k, v) == [owner |-> id, key |-> k, val |-> v]

\* ---------------------------------------------------- textproto pipeline
\* sequencer.Start(id): returns at once when it is id's turn, else blocks.
StartResponseOpen(id) == TRUE
StartResponse(id) == respTurn = id

\* conn.Cmd(cmd): id := Next(); StartRequest(id); PrintfLine; EndRequest(id).
\* Requests go out in id order, so the call is one step at Next().
\* A write on a closed socket fails and nothing reaches the wire.
ConnCmdOK == sess = "open"
ConnCmd(cmd) ==
  /\ nextId' = nextId + 1
  /\ inbuf' = IF ConnCmdOK THEN Append(inbuf, [id |-> nextId, cmd |-> cmd])
                           ELSE inbuf

\* conn.ReadLine(): blocks until a line is there; fails on a closed socket
\* once nothing is left to read.
CanReadLine == Len(outbuf) > 0
ReadFails == Len(outbuf) = 0 /\ sess = "closed"

\* The idle loop is between writing "idle" and having read its whole reply.
IdleWaiting == idlePc = "waiting"

\* --------------------------------------------------------- MPD daemon
\* The peer of the session, following the wire protocol: "idle" puts the
\* session in wait mode; in wait mode "noidle" ends the wait with a bare
\* OK and any other line ends the session; outside wait mode "noidle" has
\* no reply, "status" replies key/value lines and OK, "close" hangs up.
DaemonReply(m) ==
  IF m.cmd = "status" THEN <<KVLine(m.id, "state", "play"), OKLine(m.id)>>
  ELSE <<>>

DaemonStep ==
  /\ sess = "open"
  /\ Len(inbuf) > 0
  /\ LET m == Head(inbuf) IN
       /\ inbuf' = Tail(inbuf)
       /\ IF dIdle # NoId
          THEN IF m.cmd = "noidle"
               THEN /\ outbuf' = Append(outbuf, OKLine(dIdle))
                    /\ sess' = sess
               ELSE /\ outbuf' = outbuf
                    /\ sess' = "closed"
          ELSE /\ outbuf' = outbuf \o DaemonReply(m)
               /\ sess' = IF m.cmd = "close" THEN "closed" ELSE sess
       /\ dIdle' = IF dIdle = NoId /\ m.cmd = "idle" THEN m.id ELSE NoId
  /\ UNCHANGED <<nextId, respTurn, idlePc, idleId, idleChanged, dispI, dispN,
                 dispActive, subscriptions, closePc, closeId, quitPc, callPc,
                 callId, callRead, calledInWait, closedInWait,
                 nonConnVars>>

\* A subsystem changes while the session is in wait mode.
DaemonChanged(s) ==
  /\ sess = "open"
  /\ dIdle # NoId
  /\ outbuf' = outbuf \o <<KVLine(dIdle, "changed", s), OKLine(dIdle)>>
  /\ dIdle' = NoId
  /\ UNCHANGED <<nextId, respTurn, inbuf, sess, idlePc, idleId, idleChanged,
                 dispI, dispN, dispActive, subscriptions, closePc, closeId,
                 quitPc, callPc, callId, callRead, calledInWait, closedInWait,
                 nonConnVars>>

\* ------------------------------------------------------ MPDClient.Idle
\* Idle(subsystems...): append an active subscription, return its channel.
Idle(l) ==
  /\ Len(subscriptions) < MaxSubs
  /\ subscriptions' = Append(subscriptions,
                        [active |-> TRUE, subsystems |-> l, delivered |-> 0])
  /\ UNCHANGED <<nextId, respTurn, inbuf, outbuf, sess, dIdle, idlePc, idleId,
                 idleChanged, dispI, dispN, dispActive, closePc, closeId,
                 quitPc, callPc, callId, callRead, calledInWait, closedInWait,
                 nonConnVars>>

\* ------------------------------------------------------ MPDClient.idle
\* First pass of the loop: initialized is false, so the select is skipped
\* and conn.Cmd("idle") runs; an error panics (recovered, loop ends).
idle_Enter ==
  /\ idlePc = "start"
  /\ ConnCmd("idle")
  /\ idleId' = nextId
  /\ idlePc' = IF ConnCmdOK THEN "waiting" ELSE "panicked"
  /\ idleChanged' = "none"
  /\ UNCHANGED <<respTurn, outbuf, sess, dIdle, dispI, dispN,
                 dispActive, subscriptions, closePc, closeId, quitPc, callPc,
                 callId, callRead, calledInWait, closedInWait,
                 nonConnVars>>

\* StartResponse(id); fillInfoUntilOK reads one line. On "OK" the reply is
\* complete: EndResponse(id), then dispatch if info["changed"] is set.
idle_Read ==
  /\ idlePc = "waiting"
  /\ StartResponse(idleId)
  /\ CanReadLine
  /\ LET line == Head(outbuf) IN
       /\ outbuf' = Tail(outbuf)
       /\ IF line.key = "OK"
          THEN /\ respTurn' = idleId + 1
               /\ idlePc' = IF idleChanged = "none" THEN "looptop" ELSE "dispatch"
               /\ dispI' = 1
               /\ dispN' = Len(subscriptions)
               /\ dispActive' = [i \in 1..Len(subscriptions) |->
                                   subscriptions[i].active]
               /\ idleChanged' = idleChanged
          ELSE /\ idleChanged' = IF line.key = "changed" THEN line.val
                                                          ELSE idleChanged
               /\ UNCHANGED <<respTurn, idlePc, dispI, dispN, dispActive>>
  /\ UNCHANGED <<nextId, inbuf, sess, dIdle, idleId, subscriptions, closePc,
                 closeId, quitPc, callPc, callId, callRead, calledInWait, closedInWait,
                 nonConnVars>>

\* ReadLine fails: EndResponse(id), then panic(err).
idle_ReadFail ==
  /\ idlePc = "waiting"
  /\ StartResponse(idleId)
  /\ ReadFails
  /\ respTurn' = idleId + 1
  /\ idlePc' = "panicked"
  /\ UNCHANGED <<nextId, inbuf, outbuf, sess, dIdle, idleId, idleChanged,
                 dispI, dispN, dispActive, subscriptions, closePc, closeId,
                 quitPc, callPc, callId, callRead, calledInWait, closedInWait,
                 nonConnVars>>

\* Number of entries of the interest list equal to the reported subsystem.
Wanted(l, s) == Cardinality({j \in 1..Len(l) : l[j] = s})

\* One pass of the range loop body for subscription dispI: an active
\* subscription with an empty list gets one send and Close(); one with a
\* list gets a send and Close() per matching entry, so a second matching
\* entry sends on the closed channel and panics.
idle_Dispatch ==
  /\ idlePc = "dispatch"
  /\ dispI <= dispN
  /\ LET sub == subscriptions[dispI]
         n == Wanted(sub.subsystems, idleChanged)
         hit == sub.active /\ (Len(sub.subsystems) = 0 \/ n > 0)
     IN
       /\ subscriptions' =
            IF hit
            THEN [subscriptions EXCEPT ![dispI] =
                    [active |-> FALSE, subsystems |-> sub.subsystems,
                     delivered |-> sub.delivered + 1]]
            ELSE subscriptions
       /\ IF hit /\ n > 1
          THEN idlePc' = "panicked" /\ dispI' = dispI
          ELSE idlePc' = idlePc /\ dispI' = dispI + 1
  /\ UNCHANGED <<nextId, respTurn, inbuf, outbuf, sess, dIdle, idleId,
                 idleChanged, dispN, dispActive, closePc, closeId, quitPc,
                 callPc, callId, callRead, calledInWait, closedInWait,
                 nonConnVars>>

idle_DispatchEnd ==
  /\ idlePc = "dispatch"
  /\ dispI > dispN
  /\ idlePc' = "looptop"
  /\ UNCHANGED <<nextId, respTurn, inbuf, outbuf, sess, dIdle, idleId,
                 idleChanged, dispI, dispN, dispActive, subscriptions, closePc,
                 closeId, quitPc, callPc, callId, callRead, calledInWait, closedInWait,
                 nonConnVars>>

\* Top of the loop with initialized = true: select on quitCh.
\* case <-c.quitCh: a sender is parked on the channel; return.
idle_Quit ==
  /\ idlePc = "looptop"
  /\ quitPc = "sending"
  /\ quitPc' = "sent"
  /\ idlePc' = "returned"
  /\ UNCHANGED <<nextId, respTurn, inbuf, outbuf, sess, dIdle, idleId,
                 idleChanged, dispI, dispN, dispActive, subscriptions, closePc,
                 closeId, callPc, callId, callRead, calledInWait, closedInWait,
                 nonConnVars>>

\* default: c.c.L.Lock(); c.c.Wait(). Nothing in the package calls Signal
\* or Broadcast on c.c, so no step leaves "condwait".
idle_CondWait ==
  /\ idlePc = "looptop"
  /\ quitPc # "sending"
  /\ idlePc' = "condwait"
  /\ UNCHANGED <<nextId, respTurn, inbuf, outbuf, sess, dIdle, idleId,
                 idleChanged, dispI, dispN, dispActive, subscriptions, closePc,
                 closeId, quitPc, callPc, callId, callRead, calledInWait, closedInWait,
                 nonConnVars>>

\* ----------------------------------------------------- MPDClient.Close
\* go func() { c.quitCh <- true }(), then noIdle() writes "noidle".
\* A failed write returns the error.
Close_Begin ==
  /\ closePc = "init"
  /\ quitPc' = "spawned"
  /\ ConnCmd("noidle")
  /\ closeId' = nextId
  /\ closePc' = IF ConnCmdOK THEN "noidleResp" ELSE "returned"
  /\ closedInWait' = IdleWaiting
  /\ UNCHANGED <<respTurn, outbuf, sess, dIdle, idlePc, idleId, idleChanged,
                 dispI, dispN, dispActive, subscriptions, callPc, callId,
                 callRead, calledInWait,
                 nonConnVars>>

\* The quit goroutine reaches its send on the unbuffered quitCh and parks.
quit_Send ==
  /\ quitPc = "spawned"
  /\ quitPc' = "sending"
  /\ UNCHANGED <<nextId, respTurn, inbuf, outbuf, sess, dIdle, idlePc, idleId,
                 idleChanged, dispI, dispN, dispActive, subscriptions, closePc,
                 closeId, callPc, callId, callRead, calledInWait, closedInWait,
                 nonConnVars>>

\* noIdle(): StartResponse(id); EndResponse(id). No line is read.
Close_noIdleResp ==
  /\ closePc = "noidleResp"
  /\ StartResponse(closeId)
  /\ respTurn' = closeId + 1
  /\ closePc' = "sendClose"
  /\ UNCHANGED <<nextId, inbuf, outbuf, sess, dIdle, idlePc, idleId,
                 idleChanged, dispI, dispN, dispActive, subscriptions, closeId,
                 quitPc, callPc, callId, callRead, calledInWait, closedInWait,
                 nonConnVars>>

\* id, err := c.conn.Cmd("close")
Close_Cmd ==
  /\ closePc = "sendClose"
  /\ ConnCmd("close")
  /\ closeId' = nextId
  /\ closePc' = "closeResp"
  /\ UNCHANGED <<respTurn, outbuf, sess, dIdle, idlePc, idleId, idleChanged,
                 dispI, dispN, dispActive, subscriptions, quitPc, callPc,
                 callId, callRead, calledInWait, closedInWait,
                 nonConnVars>>

\* StartResponse(id); EndResponse(id); c.conn.Close(); Close returns.
Close_Finish ==
  /\ closePc = "closeResp"
  /\ StartResponse(closeId)
  /\ respTurn' = closeId + 1
  /\ sess' = "closed"
  /\ closePc' = "returned"
  /\ UNCHANGED <<nextId, inbuf, outbuf, dIdle, idlePc, idleId, idleChanged,
                 dispI, dispN, dispActive, subscriptions, closeId, quitPc,
                 callPc, callId, callRead, calledInWait, closedInWait,
                 nonConnVars>>

\* ------------------------------------------ MPDClient.Cmd and Status
\* Cmd: noIdle() writes "noidle" whatever the mode of the connection.
Cmd_noIdle(c) ==
  /\ callPc[c] = "init"
  /\ ConnCmd("noidle")
  /\ callId' = [callId EXCEPT ![c] = nextId]
  /\ callPc' = [callPc EXCEPT ![c] = IF ConnCmdOK THEN "noidleResp" ELSE "error"]
  /\ calledInWait' = [calledInWait EXCEPT ![c] = IdleWaiting]
  /\ UNCHANGED <<respTurn, outbuf, sess, dIdle, idlePc, idleId, idleChanged,
                 dispI, dispN, dispActive, subscriptions, closePc, closeId,
                 quitPc, callRead, closedInWait,
                 nonConnVars>>

\* noIdle(): StartResponse(id); EndResponse(id); return nil.
Cmd_noIdleResp(c) ==
  /\ callPc[c] = "noidleResp"
  /\ StartResponse(callId[c])
  /\ respTurn' = callId[c] + 1
  /\ callPc' = [callPc EXCEPT ![c] = "send"]
  /\ UNCHANGED <<nextId, inbuf, outbuf, sess, dIdle, idlePc, idleId,
                 idleChanged, dispI, dispN, dispActive, subscriptions, closePc,
                 closeId, quitPc, callId, callRead, calledInWait, closedInWait,
                 nonConnVars>>

\* Cmd: id, err := c.conn.Cmd(cmd) with cmd = "status".
Cmd_Send(c) ==
  /\ callPc[c] = "send"
  /\ ConnCmd("status")
  /\ callId' = [callId EXCEPT ![c] = nextId]
  /\ callPc' = [callPc EXCEPT ![c] = IF ConnCmdOK THEN "reading" ELSE "error"]
  /\ UNCHANGED <<respTurn, outbuf, sess, dIdle, idlePc, idleId, idleChanged,
                 dispI, dispN, dispActive, subscriptions, closePc, closeId,
                 quitPc, callRead, calledInWait, closedInWait,
                 nonConnVars>>

\* Status: startResponse(id); fillInfoUntilOK reads one line; the deferred
\* endResponse(id) runs when "OK" is read.
Status_Read(c) ==
  /\ callPc[c] = "reading"
  /\ StartResponse(callId[c])
  /\ CanReadLine
  /\ LET line == Head(outbuf) IN
       /\ outbuf' = Tail(outbuf)
       /\ callRead' = [callRead EXCEPT ![c] = Append(@, line)]
       /\ IF line.key = "OK"
          THEN /\ respTurn' = callId[c] + 1
               /\ callPc' = [callPc EXCEPT ![c] = "done"]
          ELSE UNCHANGED <<respTurn, callPc>>
  /\ UNCHANGED <<nextId, inbuf, sess, dIdle, idlePc, idleId, idleChanged,
                 dispI, dispN, dispActive, subscriptions, closePc, closeId,
                 quitPc, callId, calledInWait, closedInWait,
                 nonConnVars>>

\* ReadLine fails: Status returns the error, endResponse(id) runs.
Status_ReadFail(c) ==
  /\ callPc[c] = "reading"
  /\ StartResponse(callId[c])
  /\ ReadFails
  /\ respTurn' = callId[c] + 1
  /\ callPc' = [callPc EXCEPT ![c] = "error"]
  /\ UNCHANGED <<nextId, inbuf, outbuf, sess, dIdle, idlePc, idleId,
                 idleChanged, dispI, dispN, dispActive, subscriptions, closePc,
                 closeId, quitPc, callId, callRead, calledInWait, closedInWait,
                 nonConnVars>>

\* ------------------------------------------------------- specification
\* Connect: greeting read, empty pipeline, no subscriptions; the idle
\* goroutine is started on the connection and Close has not been called.
ConnInit ==
  /\ nextId = 0
  /\ respTurn = 0
  /\ inbuf = <<>>
  /\ outbuf = <<>>
  /\ sess = "open"
  /\ dIdle = NoId
  /\ idlePc = "start"
  /\ idleId = NoId
  /\ idleChanged = "none"
  /\ dispI = 1
  /\ dispN = 0
  /\ dispActive = <<>>
  /\ closePc = "init"
  /\ closeId = NoId
  /\ quitPc = "none"
  /\ callPc = [c \in Callers |-> "init"]
  /\ callId = [c \in Callers |-> NoId]
  /\ callRead = [c \in Callers |-> <<>>]
  /\ calledInWait = [c \in Callers |-> FALSE]
  /\ closedInWait = FALSE

idleStep ==
  \/ idle_Enter
  \/ idle_Read
  \/ idle_ReadFail
  \/ idle_Dispatch
  \/ idle_DispatchEnd
  \/ idle_Quit
  \/ idle_CondWait

CloseStep ==
  \/ Close_Begin
  \/ quit_Send
  \/ Close_noIdleResp
  \/ Close_Cmd
  \/ Close_Finish

CallerStep(c) ==
  \/ Cmd_noIdle(c)
  \/ Cmd_noIdleResp(c)
  \/ Cmd_Send(c)
  \/ Status_Read(c)
  \/ Status_ReadFail(c)

DaemonAct ==
  \/ DaemonStep
  \/ \E s \in Subsystems : DaemonChanged(s)

\* The subscription the tracker registers: mpdcIdle.Idle("player").
PlayerSubscription ==
  [active |-> TRUE, subsystems |-> <<"player">>, delivered |-> 0]

\* Connection shared by the idle loop, Cmd callers and Close; the
\* subscriber, if any, registered before the loop was started.
vars == <<connVars, nonConnVars>>

PlayedParked ==
  /\ pvIn = [has |-> FALSE, e |-> 0, t |-> 0]
  /\ pvStatus = NoInfo
  /\ pvPlayed = "unset"

StickerGetParked ==
  /\ sgStream = <<>>
  /\ sgResult = SGResult(<<>>, "unset", <<>>, 0)

NoSticker == [has |-> FALSE, val |-> <<>>]
NoDecision == [made |-> FALSE, on |-> NoInfo, fresh |-> NoInfo]
NoNum == [songid |-> 0, has |-> FALSE, e |-> 0, t |-> 0, state |-> "stop"]

\* The two tasks that call Idle() concurrently (one call each).
Subscribers == {1, 2}

ResyncParked ==
  /\ rsOp = "status"
  /\ rsStream = <<>>
  /\ rsPc = "first"
  /\ rsErr = "unset"
  /\ rsLeft = <<>>
  /\ rsNextRead = <<>>

RoundTripParked ==
  /\ rtUri = <<>>
  /\ rtValue = <<>>
  /\ rtPc = "set"
  /\ rtRead = SGResult(<<>>, "unset", <<>>, 0)

SubscribeParked ==
  /\ subPc = [t \in Subscribers |-> "done"]
  /\ subSeen = [t \in Subscribers |-> 0]

NotifyParked ==
  /\ ntPc = "subscribe"
  /\ dPending = FALSE

TaskParked ==
  ResyncParked /\ RoundTripParked /\ SubscribeParked /\ NotifyParked

IncParked ==
  /\ incCalls = 0
  /\ incRet = [err |-> FALSE, val |-> 0]
  /\ incV0 = [ok |-> TRUE, fresh |-> FALSE, val |-> 0]
  /\ incN = 0

TrackParked ==
  /\ player = [songid |-> 1, elapsed |-> 0, state |-> "stop"]
  /\ stickers = [f \in Files |-> NoSticker]
  /\ idleCh = FALSE
  /\ changes = 0
  /\ siStatus = NoInfo
  /\ siSong = NoInfo
  /\ ignorePoll = FALSE
  /\ trPc = "init1"
  /\ trigger = "poll"
  /\ siNum = NoNum
  /\ trCmds = <<>>
  /\ pd = NoDecision
  /\ IncParked

ParkedNonConn ==
  /\ PlayedParked
  /\ StickerGetParked
  /\ TrackParked
  /\ TaskParked

Init ==
  /\ ConnInit
  /\ subscriptions \in {<<>>, <<PlayerSubscription>>}
  /\ ParkedNonConn

Next ==
  \/ idleStep
  \/ CloseStep
  \/ \E c \in Callers : CallerStep(c)
  \/ DaemonAct

Spec == Init /\ [][Next]_vars

\* Idle loop, Close and subscribers: registrations with every interest
\* list, made at any time; no Cmd caller.
DispatchNext ==
  \/ idleStep
  \/ CloseStep
  \/ \E l \in InterestLists : Idle(l)
  \/ DaemonAct

DispatchInit ==
  /\ ConnInit
  /\ subscriptions = <<>>
  /\ ParkedNonConn

DispatchSpec == DispatchInit /\ [][DispatchNext]_vars

\* Scheduling: a goroutine that can run does run, and the daemon serves
\* the lines it has received. Calling Close or Status, and a subsystem
\* change, are left to the environment.
FairSpec ==
  /\ Spec
  /\ WF_vars(idleStep)
  /\ WF_vars(quit_Send)
  /\ WF_vars(Close_noIdleResp \/ Close_Cmd \/ Close_Finish)
  /\ \A c \in Callers :
       WF_vars(Cmd_noIdleResp(c) \/ Cmd_Send(c) \/ Status_Read(c)
               \/ Status_ReadFail(c))
  /\ WF_vars(DaemonStep)

\* Idle loop, Close and daemon only, under the same scheduling.
CloseNext ==
  \/ idleStep
  \/ CloseStep
  \/ DaemonAct

FairCloseSpec ==
  /\ Init
  /\ [][CloseNext]_vars
  /\ WF_vars(idleStep)
  /\ WF_vars(quit_Send)
  /\ WF_vars(Close_noIdleResp \/ Close_Cmd \/ Close_Finish)
  /\ WF_vars(DaemonStep)

\* ====================================================== claims, part 1

\* The command line a Cmd caller sends after the interrupt.
OnDemand(cmd) == cmd = "status"

\* C1: no on-demand command line is written to the wire while the idle loop
\* is between writing "idle" and having read its whole reply.
C1_NoCommandWhileWaiting ==
  [][(IdleWaiting /\ Len(inbuf') = Len(inbuf) + 1 /\ nextId' = nextId + 1)
       => ~OnDemand(inbuf'[Len(inbuf')].cmd)]_vars

\* C2: every reply line a Cmd caller reads belongs to its own command; the
\* reply of the interrupted wait is never read by the caller.
C2_NoWaitLeak ==
  \A c \in Callers : \A i \in 1..Len(callRead[c]) :
    callRead[c][i].owner = callId[c]

\* A caller interrupted a waiting idle loop whose reply reported a change,
\* and has read its own complete reply.
C2_Witness ==
  \E c \in Callers :
    /\ calledInWait[c]
    /\ callPc[c] = "done"
    /\ Len(callRead[c]) = 2
    /\ idleChanged # "none"

\* An interest list is empty or holds the reported subsystem.
Interested(sub, s) == Len(sub.subsystems) = 0 \/ Wanted(sub.subsystems, s) > 0

\* The dispatch round for a reported change is over.
DispatchOver ==
  /\ idleChanged # "none"
  /\ idlePc \in {"looptop", "condwait", "returned", "panicked"}

\* C3: after the dispatch round for "changed: s", every subscription that
\* was active at dispatch time and is interested in s has received s exactly
\* once and is inactive; every other active one received nothing and is
\* still active.
C3_DispatchDelivers ==
  DispatchOver =>
    \A i \in 1..dispN :
      dispActive[i] =>
        IF Interested(subscriptions[i], idleChanged)
        THEN subscriptions[i].delivered = 1 /\ ~subscriptions[i].active
        ELSE subscriptions[i].delivered = 0 /\ subscriptions[i].active

\* C4: unless shutdown has been requested, once the reply to the wait
\* command has been read the loop issues the wait command again.
C4_IdleReissued ==
  (idlePc \in {"dispatch", "looptop"}) ~> (idlePc = "waiting" \/ closePc # "init")

\* C5: once Close has been called the idle loop writes no wait command, and
\* from DISPATCH it goes to SHUT (the loop returns).
C5_ShutdownEndsLoop ==
  [][closePc # "init" =>
       /\ ~(idlePc # "waiting" /\ idlePc' = "waiting")
       /\ (idlePc \in {"dispatch", "looptop"}
             => idlePc' \in {"dispatch", "looptop", "returned"})]_vars

\* C6: if Close is called while the idle loop is waiting, the idle loop
\* ends, Close returns and the quit goroutine completes its send.
C6_CloseUnblocksAll ==
  closedInWait ~> (/\ idlePc \in {"returned", "panicked"}
                   /\ closePc = "returned"
                   /\ quitPc = "sent")

\* ===================================================== pure-function specs
MaxSecs == 120         \* largest elapsed and total time of a status
MaxValueLen == 2       \* longest sticker value in a reply

ConnParked ==
  /\ ConnInit
  /\ subscriptions = <<>>

\* considerSongPlayed on the status of a daemon: no "time" field (nothing
\* loaded), or "time: e:t".
PlayedInit ==
  /\ pvIn \in {[has |-> FALSE, e |-> 0, t |-> 0]}
              \cup {[has |-> TRUE, e |-> e, t |-> t] :
                      e \in 0..MaxSecs, t \in 0..MaxSecs}
  /\ pvStatus = IF pvIn.has THEN InfoWith(<<"time">>, FormatTime(pvIn.e, pvIn.t))
                            ELSE NoInfo
  /\ pvPlayed = "unset"
  /\ StickerGetParked
  /\ TrackParked
  /\ ConnParked
  /\ TaskParked

CheckPlayed ==
  /\ pvPlayed = "unset"
  /\ pvPlayed' = IF considerSongPlayed(pvStatus, songPlayedThresholdSeconds)
                 THEN "true" ELSE "false"
  /\ UNCHANGED <<pvIn, pvStatus, stickerGetVars, trackVars, connVars,
                 taskVars>>

PlayedSpec == PlayedInit /\ [][CheckPlayed]_vars

\* StickerGet on every reply made of an error line or a sticker line,
\* then OK, another line, or nothing.
ValueChars == {"1", "x", "=", "ACK"}
Values == UNION {[1..n -> ValueChars] : n \in 0..MaxValueLen}
FirstLines == AckLines \cup {StickerLine(playcountSticker, v) : v \in Values}
SecondLines == {<<"OK">>, AckLine("nosong"), <<"x">>}
ReplyStreams ==
  {<<>>} \cup {<<a>> : a \in FirstLines}
         \cup {<<a, b>> : a \in FirstLines, b \in SecondLines}

StickerGetInit ==
  /\ sgStream \in ReplyStreams
  /\ sgResult = SGResult(<<>>, "unset", <<>>, 0)
  /\ PlayedParked
  /\ TrackParked
  /\ ConnParked
  /\ TaskParked

CallStickerGet ==
  /\ sgResult.err = "unset"
  /\ sgResult' = StickerGet(sgStream)
  /\ UNCHANGED <<sgStream, playedVars, trackVars, connVars,
                 taskVars>>

StickerGetSpec == StickerGetInit /\ [][CallStickerGet]_vars

\* ====================================================== claims, part 2

\* C8: the played check is true exactly when total and elapsed are both
\* nonzero and total - elapsed is below 10; 118 of 120 is played, 60 of 120
\* is not, total 0 never is.
C8_PlayedCheck ==
  pvPlayed # "unset" =>
    /\ pvIn.has =>
         ((pvPlayed = "true") <=>
            (pvIn.t # 0 /\ pvIn.e # 0 /\ pvIn.t - pvIn.e < 10))
    /\ ~pvIn.has => pvPlayed = "false"
    /\ (pvIn.has /\ pvIn.e = 118 /\ pvIn.t = 120) => pvPlayed = "true"
    /\ (pvIn.has /\ pvIn.e = 60 /\ pvIn.t = 120) => pvPlayed = "false"
    /\ (pvIn.has /\ pvIn.t = 0) => pvPlayed = "false"

C8_Witness ==
  pvIn.has /\ pvIn.e = 118 /\ pvIn.t = 120 /\ pvPlayed = "true"

\* C10: StickerGet returns "" and no error on a "no such sticker" error
\* line; an error carrying the raw line on every other ACK line; on a
\* sticker line it returns the value only after reading a following "OK",
\* and an error when that line is missing or different.
C10_StickerGetReplies ==
  (sgResult.err # "unset" /\ Len(sgStream) > 0) =>
    LET first == sgStream[1] IN
      /\ (first = AckLine("nss")) =>
           sgResult.value = <<>> /\ sgResult.err = "nil"
      /\ (first \in AckLines /\ first # AckLine("nss")) =>
           sgResult.err = "StickerGet" /\ sgResult.errLine = first
      /\ (first \notin AckLines) =>
           IF Len(sgStream) > 1 /\ sgStream[2] = <<"OK">>
           THEN /\ sgResult.err = "nil"
                /\ sgResult.consumed = 2
                /\ \A v \in Values :
                     (first = StickerLine(playcountSticker, v) /\ ~Contains(v, "="))
                       => sgResult.value = v
           ELSE sgResult.err \in {"io", "noOK"}

C10_Witness ==
  /\ sgStream = <<StickerLine(playcountSticker, <<"1", "x">>), <<"OK">>>>
  /\ sgResult.err = "nil"
  /\ sgResult.value = <<"1", "x">>
  /\ sgResult.consumed = 2

\* ======================================================= RecordPlayCounts
MaxChanges == 2        \* changes of song or state the player makes
MaxIncs == 3           \* sequential increments of one counter
MaxCount == 10         \* largest counter value stored beforehand

\* What the daemon holds when a status is fetched.
Num(pl) == [songid |-> pl.songid, has |-> pl.state # "stop",
            e |-> pl.elapsed, t |-> SongLen, state |-> pl.state]

\* RecordPlayCounts: statusInfo, err := mpdc.Status()
Track_InitStatus ==
  /\ trPc = "init1"
  /\ \E st \in {Status(player)} :
       /\ siStatus' = st.info
       /\ trPc' = IF st.err THEN "dead" ELSE "init2"
  /\ siNum' = Num(player)
  /\ trCmds' = <<"status">>
  /\ UNCHANGED <<pd, player, stickers, idleCh, changes, siSong, ignorePoll,
                 trigger, incCalls, incRet, incV0, incN, playedVars,
                 stickerGetVars, connVars,
                 taskVars>>

\* songInfo, err := mpdc.CurrentSong(); ignorePoll from the initial status.
Track_InitSong ==
  /\ trPc = "init2"
  /\ \E cs \in {CurrentSong(player)} :
       /\ siSong' = cs.info
       /\ trPc' = IF cs.err THEN "dead" ELSE "select"
  /\ trCmds' = <<"currentsong">>
  /\ ignorePoll' = (Get(siStatus, <<"state">>) # <<"play">>)
  /\ UNCHANGED <<pd, player, stickers, idleCh, changes, siStatus, trigger, siNum,
                 incCalls, incRet, incV0, incN, playedVars, stickerGetVars,
                 connVars,
                 taskVars>>

\* processStateUpdate, first half: checkSongChange. An error panics.
RunCheckSongChange(kind) ==
  \E r \in {checkSongChange(siStatus, siSong, player, stickers)} :
    /\ siStatus' = r.status
    /\ stickers' = r.store
    /\ siNum' = IF r.err THEN siNum ELSE Num(player)
    /\ incCalls' = IF r.called THEN incCalls + 1 ELSE incCalls
    /\ incRet' = IF r.called THEN r.ret ELSE incRet
    /\ trPc' = IF r.err THEN "dead" ELSE "song"
    /\ trigger' = kind
    /\ trCmds' = r.cmds
    /\ pd' = r.decision

\* if !ignorePoll, with the test dropped.
PollSuppressedNever(flag) == FALSE
\* The test of the tick case: polling is suppressed.
PollSuppressed(flag) == flag

\* case <-pollCh: the update step runs unless polling is suppressed.
Track_Poll ==
  /\ trPc = "select"
  /\ ~PollSuppressed(ignorePoll)
  /\ RunCheckSongChange("poll")
  /\ UNCHANGED <<player, idleCh, changes, siSong, ignorePoll, incV0, incN,
                 playedVars, stickerGetVars, connVars,
                 taskVars>>

\* case <-pollCh while polling is suppressed: the tick is consumed and
\* nothing else happens.
Track_PollSkip ==
  /\ trPc = "select"
  /\ PollSuppressed(ignorePoll)
  /\ trigger' = "poll"
  /\ trCmds' = <<>>
  /\ UNCHANGED <<pd, player, stickers, idleCh, changes, siStatus, siSong,
                 ignorePoll, trPc, siNum, incCalls, incRet, incV0, incN,
                 playedVars, stickerGetVars, connVars, taskVars>>

\* case <-idleCh: the update step always runs.
Track_Idle ==
  /\ trPc = "select"
  /\ idleCh
  /\ idleCh' = FALSE
  /\ RunCheckSongChange("idle")
  /\ UNCHANGED <<player, changes, siSong, ignorePoll, incV0, incN, playedVars,
                 stickerGetVars, connVars,
                 taskVars>>

\* processStateUpdate, second half: updateSongInfo; after an idle
\* notification ignorePoll is recomputed from si.StatusInfo.
Track_UpdateSong ==
  /\ trPc = "song"
  /\ \E cs \in {CurrentSong(player)} :
       /\ siSong' = IF cs.err THEN siSong ELSE cs.info
       /\ trPc' = IF cs.err THEN "dead" ELSE "select"
  /\ trCmds' = <<"currentsong">>
  /\ ignorePoll' = IF trigger = "idle"
                   THEN Get(siStatus, <<"state">>) # <<"play">>
                   ELSE ignorePoll
  /\ UNCHANGED <<pd, player, stickers, idleCh, changes, siStatus, trigger, siNum,
                 incCalls, incRet, incV0, incN, playedVars, stickerGetVars,
                 connVars,
                 taskVars>>

\* The player: playback moves on (no notification), or the song, the
\* position or the state is changed (a "player" notification).
Player_Progress(e) ==
  /\ player.state = "play"
  /\ e > player.elapsed
  /\ player' = [player EXCEPT !.elapsed = e]
  /\ UNCHANGED <<pd, stickers, idleCh, changes, siStatus, siSong, ignorePoll, trPc,
                 trigger, siNum, incCalls, incRet, incV0, incN, trCmds, playedVars,
                 stickerGetVars, connVars,
                 taskVars>>

Player_Next(id) ==
  /\ changes < MaxChanges
  /\ id # player.songid
  /\ player' = [songid |-> id, elapsed |-> 0, state |-> player.state]
  /\ changes' = changes + 1
  /\ idleCh' = TRUE
  /\ UNCHANGED <<pd, stickers, siStatus, siSong, ignorePoll, trPc, trigger, siNum,
                 incCalls, incRet, incV0, incN, trCmds, playedVars, stickerGetVars,
                 connVars,
                 taskVars>>

Player_SetState(st) ==
  /\ changes < MaxChanges
  /\ st # player.state
  /\ player' = [songid |-> player.songid,
                elapsed |-> IF st = "stop" THEN 0 ELSE player.elapsed,
                state |-> st]
  /\ changes' = changes + 1
  /\ idleCh' = TRUE
  /\ UNCHANGED <<pd, stickers, siStatus, siSong, ignorePoll, trPc, trigger,
                 siNum, incCalls, incRet, incV0, incN, trCmds, playedVars,
                 stickerGetVars, connVars,
                 taskVars>>

Sticker(v) == [has |-> TRUE, val |-> v]

TrackerInit ==
  /\ player \in {[songid |-> 1, elapsed |-> 0, state |-> st] :
                   st \in {"play", "stop"}}
  /\ stickers \in {[f \in known |-> c] :
                     known \in {Files, Files \ {FileOf(1)}},
                     c \in {NoSticker, Sticker(<<"9">>), Sticker(<<"x">>)}}
  /\ idleCh = FALSE
  /\ changes = 0
  /\ siStatus = NoInfo
  /\ siSong = NoInfo
  /\ ignorePoll = FALSE
  /\ trPc = "init1"
  /\ trigger = "poll"
  /\ siNum = NoNum
  /\ trCmds = <<>>
  /\ pd = NoDecision
  /\ IncParked
  /\ PlayedParked
  /\ StickerGetParked
  /\ ConnParked
  /\ TaskParked

TrackerNext ==
  \/ Track_InitStatus
  \/ Track_InitSong
  \/ Track_Poll
  \/ Track_PollSkip
  \/ Track_Idle
  \/ Track_UpdateSong
  \/ \E e \in ElapsedPoints : Player_Progress(e)
  \/ \E id \in Songs : Player_Next(id)
  \/ \E st \in PlayerStates : Player_SetState(st)

TrackerSpec == TrackerInit /\ [][TrackerNext]_vars

\* Sequential increments of one song's counter, from every stored value.
InitialCounters ==
  {NoSticker, Sticker(<<>>), Sticker(<<"x">>)}
    \cup {Sticker(Itoa(v)) : v \in 0..MaxCount}

IncInit ==
  /\ siSong \in {InfoWith(<<"file">>, f) : f \in Files}
  /\ stickers \in [Files -> InitialCounters]
  /\ incV0 = LET c == stickers[siSong[<<"file">>]] IN
               [ok |-> ~c.has \/ c.val # <<"x">>,
                fresh |-> ~c.has,
                val |-> IF c.has /\ AllDigits(c.val) THEN DigitsVal(c.val) ELSE 0]
  /\ incCalls = 0
  /\ incN = 0
  /\ incRet = [err |-> FALSE, val |-> 0]
  /\ player = [songid |-> 1, elapsed |-> 0, state |-> "stop"]
  /\ idleCh = FALSE
  /\ changes = 0
  /\ siStatus = NoInfo
  /\ ignorePoll = FALSE
  /\ trPc = "init1"
  /\ trigger = "poll"
  /\ siNum = NoNum
  /\ trCmds = <<>>
  /\ pd = NoDecision
  /\ PlayedParked
  /\ StickerGetParked
  /\ ConnParked
  /\ TaskParked

IncOnce ==
  /\ incCalls < MaxIncs
  /\ ~incRet.err
  /\ LET r == incSongPlayCount(siSong, stickers) IN
       /\ stickers' = r.store
       /\ incRet' = [err |-> r.err, val |-> r.val]
       /\ incN' = IF r.err THEN incN ELSE incN + 1
  /\ incCalls' = incCalls + 1
  /\ UNCHANGED <<pd, player, idleCh, changes, siStatus, siSong, ignorePoll, trPc,
                 trigger, siNum, incV0, trCmds, playedVars, stickerGetVars, connVars,
                 taskVars>>

IncSpec == IncInit /\ [][IncOnce]_vars

\* ====================================================== claims, part 3

\* An update step runs checkSongChange.
UpdateStep == trPc = "select" /\ trPc' \in {"song", "dead"}

\* The fresh status has another song id than the recorded one, and the
\* recorded one counts as played (numbers as the daemon held them).
PlayedEdge ==
  /\ player.songid # siNum.songid
  /\ siNum.has /\ siNum.t # 0 /\ siNum.e # 0
  /\ siNum.t - siNum.e < songPlayedThresholdSeconds

CounterOf(c) == IF c.has /\ Len(c.val) > 0 THEN Atoi(c.val).val ELSE 0

\* C7: an update step runs the increment exactly once if the song id
\* changed and the previous status counts as played, and not at all
\* otherwise; a successful increment adds one to the counter of the cached
\* song and replaces the recorded status by one with another song id, so
\* the same recorded status is never counted twice.
C7_IncrementOncePerPlayedEdge ==
  [][UpdateStep =>
       /\ incCalls' = IF PlayedEdge THEN incCalls + 1 ELSE incCalls
       /\ ~PlayedEdge => stickers' = stickers
       /\ (PlayedEdge /\ ~incRet'.err) =>
            /\ stickers' = [stickers EXCEPT ![siSong[<<"file">>]] =
                              Sticker(Itoa(CounterOf(@) + 1))]
            /\ siNum'.songid # siNum.songid
       /\ (PlayedEdge /\ incRet'.err) => stickers' = stickers]_vars

\* The counter of a song without sticker was incremented to 1 by an update
\* step on a played song-change edge.
C7_Witness ==
  /\ trPc = "song"
  /\ incCalls = 1
  /\ ~incRet.err
  /\ incRet.val = 1
  /\ \E f \in DOMAIN stickers : stickers[f] = Sticker(<<"1">>)

\* C9: from a stored value V (missing or empty read as 0), n sequential
\* increments all succeed, store V+n and the last returns V+n.
C9_SequentialIncrements ==
  incV0.ok =>
    /\ ~incRet.err
    /\ incN = incCalls
    /\ incCalls > 0 =>
         /\ stickers[siSong[<<"file">>]] = Sticker(Itoa(incV0.val + incCalls))
         /\ incRet.val = incV0.val + incCalls
         /\ \A f \in Files \ {siSong[<<"file">>]} :
              CounterOf(stickers[f]) <= MaxCount

\* Two increments of a song without sticker stored "2".
C9_Witness ==
  /\ incV0.fresh
  /\ incCalls = 2
  /\ incRet = [err |-> FALSE, val |-> 2]
  /\ stickers[siSong[<<"file">>]] = Sticker(<<"2">>)

\* ============================== a failed call, then the next command
MaxBody == 2           \* reply lines before the final OK or ACK line

\* channelMessageRegexp "channel: (.+)\nmessage: (.+)" on the two lines
\* joined by a newline; "ch" stands for "channel: " and "msg" for
\* "message: ". "." does not match the newline, so the first group runs to
\* the end of the first line and "message: " starts the second.
channelMessageRegexp(l1, l2) ==
  LET p == IndexOf(l1, "ch")
  IN IF p # 0 /\ p < Len(l1) /\ Len(l2) >= 2 /\ l2[1] = "msg"
     THEN [matched |-> TRUE, channel |-> SubSeq(l1, p + 1, Len(l1)),
           message |-> Tail(l2)]
     ELSE [matched |-> FALSE, channel |-> <<>>, message |-> <<>>]

\* ReadMessages after Cmd and startResponse, on a reply of which n lines
\* have been read: the error, the lines consumed and the ReadLine calls
\* made. The error of the second ReadLine of a pair is dropped by the code.
RECURSIVE ReadMessagesFrom(_, _, _)
ReadMessagesFrom(stream, n, msgs) ==
  LET r1 == ReadLineAt(stream, n) IN
    IF r1.err
    THEN [err |-> "io", msgs |-> msgs, consumed |-> n, reads |-> n + 1]
    ELSE IF r1.line = <<"OK">>
    THEN [err |-> "nil", msgs |-> msgs, consumed |-> n + 1, reads |-> n + 1]
    ELSE LET r2 == ReadLineAt(stream, n + 1)
             match == channelMessageRegexp(r1.line, r2.line)
         IN IF ~match.matched
            THEN [err |-> "ReadMessages", msgs |-> <<>>,
                  consumed |-> IF r2.err THEN n + 1 ELSE n + 2,
                  reads |-> n + 2]
            ELSE ReadMessagesFrom(stream, n + 2,
                   Append(msgs, [Channel |-> match.channel,
                                 Message |-> match.message]))

ReadMessages(stream) == ReadMessagesFrom(stream, 0, <<>>)

\* The five operations on a reply: the error ("nil" if none), the lines
\* consumed, and whether a ReadLine was made past the last line the daemon
\* sent (on an open connection that call blocks).
Ops == {"status", "currentsong", "stickerget", "stickerset", "readmessages"}

RunOp(op, stream) ==
  IF op \in {"status", "currentsong"}
  THEN LET r == fillInfoUntilOK(stream)
       IN [err |-> r.err, consumed |-> r.consumed, blocked |-> r.err = "io"]
  ELSE IF op = "stickerget"
  THEN LET r == StickerGet(stream)
       IN [err |-> r.err, consumed |-> r.consumed,
           blocked |-> r.err = "io" \/ r.consumed = 0]
  ELSE IF op = "stickerset"
  THEN [err |-> IF StickerSet(stream).err THEN "StickerSet" ELSE "nil",
        consumed |-> IF Len(stream) = 0 THEN 0 ELSE 1,
        blocked |-> Len(stream) = 0]
  ELSE LET r == ReadMessages(stream)
       IN [err |-> r.err, consumed |-> r.consumed,
           blocked |-> r.reads > Len(stream)]

\* Replies: up to MaxBody lines, well-formed or not, closed by OK or by
\* an error line. The marker symbols "ch", "msg" and "st" hide the ": "
\* inside them, so a line is given only to the operations whose grammar
\* it belongs to; <<"junk">> is a line without ": " and without marker.
BodyLines(op) ==
  IF op \in {"status", "currentsong"}
  THEN {<<"state", ": ", "play">>, <<"junk">>}
  ELSE IF op \in {"stickerget", "stickerset"}
  THEN {StickerLine(playcountSticker, <<"1">>), <<"junk">>}
  ELSE {<<"ch", "c">>, <<"msg", "m">>, <<"msg">>, <<"junk">>}
Replies(op) ==
  {body \o <<last>> :
     body \in UNION {[1..n -> BodyLines(op)] : n \in 0..MaxBody},
     last \in {<<"OK">>, AckLine("perm")}}

\* The reply of the daemon to the command issued next (a status).
NextReply == DaemonStatus([songid |-> 1, elapsed |-> 0, state |-> "play"])

ResyncInit ==
  /\ rsOp \in Ops
  /\ rsStream \in Replies(rsOp)
  /\ rsPc = "first"
  /\ rsErr = "unset"
  /\ rsLeft = <<>>
  /\ rsNextRead = <<>>
  /\ RoundTripParked
  /\ SubscribeParked
  /\ NotifyParked
  /\ PlayedParked
  /\ StickerGetParked
  /\ TrackParked
  /\ ConnParked

\* The operation runs on its reply and returns, or blocks in ReadLine.
Resync_First ==
  /\ rsPc = "first"
  /\ LET r == RunOp(rsOp, rsStream) IN
       /\ rsErr' = r.err
       /\ rsLeft' = SubSeq(rsStream, r.consumed + 1, Len(rsStream))
       /\ rsPc' = IF r.blocked THEN "blocked" ELSE "next"
  /\ UNCHANGED <<notifyVars, rsOp, rsStream, rsNextRead, roundTripVars, subscribeVars,
                 playedVars, stickerGetVars, trackVars, connVars>>

\* The next command on the connection: Status() reads what is unread.
Resync_Next ==
  /\ rsPc = "next"
  /\ LET wire == rsLeft \o NextReply
         r == fillInfoUntilOK(wire)
     IN rsNextRead' = SubSeq(wire, 1, r.consumed)
  /\ rsPc' = "done"
  /\ UNCHANGED <<notifyVars, rsOp, rsStream, rsErr, rsLeft, roundTripVars, subscribeVars,
                 playedVars, stickerGetVars, trackVars, connVars>>

ResyncNext == Resync_First \/ Resync_Next

ResyncSpec == ResyncInit /\ [][ResyncNext]_vars

\* ====================================================== claims, part 4

\* C11: after an operation has failed on its reply, the next command on
\* the connection reads exactly its own reply: no line of the failed reply
\* is left unread.
C11_FailedCallLeavesNoLine ==
  (rsPc = "done" /\ rsErr # "nil") => rsNextRead = NextReply

\* ================================== StickerSet followed by StickerGet
\* Values over a letter, a digit, the space and "=".
RtChars == {"a", "1", " ", "="}
RtValues == UNION {[1..n -> RtChars] : n \in 1..MaxValueLen}

\* The last argument of the "sticker set" line: fmt.Sprintf("\"%s\"").
QuoteArg(value) == <<"\"">> \o value \o <<"\"">>
\* The daemon reads a quoted argument up to the next quote.
DaemonUnquote(arg) ==
  LET rest == Tail(arg)
      q == IndexOf(rest, "\"")
  IN SubSeq(rest, 1, q - 1)

RoundTripInit ==
  /\ rtUri \in Files
  /\ rtValue \in RtValues
  /\ rtPc = "set"
  /\ rtRead = SGResult(<<>>, "unset", <<>>, 0)
  /\ ResyncParked
  /\ SubscribeParked
  /\ NotifyParked
  /\ PlayedParked
  /\ StickerGetParked
  /\ TrackParked
  /\ ConnParked

\* StickerSet("song", rtUri, "playcount", rtValue)
RoundTrip_Set ==
  /\ rtPc = "set"
  /\ LET w == DaemonStickerSet(stickers, rtUri, DaemonUnquote(QuoteArg(rtValue)))
     IN /\ stickers' = w.store
        /\ rtPc' = IF StickerSet(w.reply).err THEN "failed" ELSE "get"
  /\ UNCHANGED <<notifyVars, pd, rtUri, rtValue, rtRead, resyncVars, subscribeVars, playedVars,
                 stickerGetVars, player, idleCh, changes, siStatus, siSong,
                 ignorePoll, trPc, trigger, siNum, incCalls, incRet, incV0,
                 incN, trCmds, connVars>>

\* StickerGet("song", rtUri, "playcount")
RoundTrip_Get ==
  /\ rtPc = "get"
  /\ rtRead' = StickerGet(DaemonStickerGet(stickers, rtUri))
  /\ rtPc' = "done"
  /\ UNCHANGED <<notifyVars, rtUri, rtValue, resyncVars, subscribeVars, playedVars,
                 stickerGetVars, trackVars, connVars>>

RoundTripNext == RoundTrip_Set \/ RoundTrip_Get

RoundTripSpec == RoundTripInit /\ [][RoundTripNext]_vars

\* C12: a value written with StickerSet is returned byte for byte by a
\* following StickerGet for the same type, uri and name.
C12_StickerRoundTrip ==
  rtPc = "done" => (rtRead.err = "nil" /\ rtRead.value = rtValue)

\* ======================================= Idle() called by several tasks
\* Task 1 subscribes to "player", task 2 to "mixer".
SubscriberInterest(t) == IF t = 1 THEN <<"player">> ELSE <<"mixer">>

\* c.subscriptions = append(c.subscriptions, &is) takes no lock: the slice
\* is read, extended and written back in separate steps.
\* First step: append reads the slice.
Idle_Load(t) ==
  /\ subPc[t] = "start"
  /\ subSeen' = [subSeen EXCEPT ![t] = Len(subscriptions)]
  /\ subPc' = [subPc EXCEPT ![t] = "loaded"]
  /\ UNCHANGED <<notifyVars, connVars, resyncVars, roundTripVars, playedVars,
                 stickerGetVars, trackVars>>

\* Second step: the slice that was read, extended by the new subscription,
\* is written to c.subscriptions. With two tasks the entries that were read
\* are still the first subSeen[t] entries of the list. A write that
\* replaces an entry while the dispatch loop ranges over the list is left
\* out (the loop would go on over the array it started with).
Idle_Store(t) ==
  /\ subPc[t] = "loaded"
  /\ idlePc = "dispatch" => subSeen[t] = Len(subscriptions)
  /\ subscriptions' =
       Append(SubSeq(subscriptions, 1, subSeen[t]),
              [active |-> TRUE, subsystems |-> SubscriberInterest(t),
               delivered |-> 0])
  /\ subPc' = [subPc EXCEPT ![t] = "done"]
  /\ UNCHANGED <<notifyVars, nextId, respTurn, inbuf, outbuf, sess, dIdle, idlePc, idleId,
                 idleChanged, dispI, dispN, dispActive, closePc, closeId,
                 quitPc, callPc, callId, callRead, calledInWait, closedInWait,
                 subSeen, resyncVars, roundTripVars, playedVars,
                 stickerGetVars, trackVars>>

SubscribeInit ==
  /\ ConnInit
  /\ subscriptions = <<>>
  /\ subPc = [t \in Subscribers |-> "start"]
  /\ subSeen = [t \in Subscribers |-> 0]
  /\ ResyncParked
  /\ RoundTripParked
  /\ NotifyParked
  /\ PlayedParked
  /\ StickerGetParked
  /\ TrackParked

SubscribeNext ==
  \/ idleStep
  \/ CloseStep
  \/ \E t \in Subscribers : Idle_Load(t)
  \/ \E t \in Subscribers : Idle_Store(t)
  \/ DaemonAct

SubscribeSpec == SubscribeInit /\ [][SubscribeNext]_vars

\* The subscription task t registered is in c.subscriptions.
Registered(t) ==
  \E i \in 1..Len(subscriptions) :
    subscriptions[i].subsystems = SubscriberInterest(t)

\* C13: no registration is lost: once Idle() has returned to a task, its
\* subscription is in the connection's list (and so is seen by the next
\* dispatch round), whatever the interleaving with other Idle() calls and
\* with the dispatch loop.
C13_NoLostRegistration ==
  \A t \in Subscribers : subPc[t] = "done" => Registered(t)

\* ====================================================== claims, part 5

\* A timer tick is served.
TickStep == Track_Poll \/ Track_PollSkip

\* C14: a tick served while polling is suppressed writes no command and
\* leaves the recorded status, the cached song and the flag as they were;
\* an idle notification runs the update step whatever the flag, and when
\* that update step is over the flag is (state of the fresh status is not
\* "play"); after the initial fetches the flag is (state of the initial
\* status is not "play").
C14_SuppressedTickAndFlag ==
  [][/\ (TickStep /\ ignorePoll) =>
          /\ trCmds' = <<>>
          /\ UNCHANGED <<siStatus, siSong, ignorePoll, stickers, trPc>>
     /\ (trPc = "select" /\ idleCh /\ trigger' = "idle" /\ trPc' # "select") =>
          /\ Len(trCmds') > 0
          /\ trCmds'[1] = "status"
     /\ (trPc = "song" /\ trPc' = "select" /\ trigger = "idle") =>
          ignorePoll' = (siNum.state # "play")
     /\ (trPc = "init2" /\ trPc' = "select") =>
          ignorePoll' = (siNum.state # "play")]_vars

\* A tick was served while polling was suppressed, and a notification is
\* pending that will run the update step all the same.
C14_Witness ==
  /\ trPc = "select"
  /\ trCmds = <<>>
  /\ ignorePoll
  /\ trigger = "poll"
  /\ idleCh

\* C15 as stated: every played decision of an update step is made on
\* status data recorded at or after the trigger of that step, that is on
\* the status the step fetched, never on one recorded in a prior round.
C15_PlayedUsesFreshStatus ==
  pd.made => pd.on = pd.fresh

\* C15 amended: an update step fetches a fresh status first and makes a
\* played decision exactly when the fresh song id differs from the
\* recorded one; the decision is then made on the status recorded by the
\* preceding round (the one the song that ended was last seen with), not
\* on the fresh one.
C15_PlayedUsesRecordedStatus ==
  [][UpdateStep =>
       /\ Len(trCmds') > 0
       /\ trCmds'[1] = "status"
       /\ pd'.made <=> (player.songid # siNum.songid)
       /\ pd'.made =>
            /\ pd'.on = siStatus
            /\ pd'.fresh = Status(player).info
            /\ Get(pd'.on, <<"songid">>) = Itoa(siNum.songid)
            /\ pd'.on # pd'.fresh]_vars

\* A played decision was made on the recorded status of the song that
\* ended, and counted it.
C15_Witness ==
  /\ trPc = "song"
  /\ pd.made
  /\ Get(pd.on, <<"songid">>) # Get(pd.fresh, <<"songid">>)
  /\ Get(pd.on, <<"time">>) = FormatTime(3, SongLen)
  /\ incCalls = 1

\* A caller of Cmd leaves its start: its first line goes to the wire.
CmdFirstWrite(c) ==
  /\ callPc[c] = "init"
  /\ callPc'[c] # "init"
  /\ Len(inbuf') = Len(inbuf) + 1

\* C16: Cmd writes the interrupt command only when the connection is in
\* waiting mode; in normal mode the first line Cmd writes is the command
\* itself.
C16_InterruptOnlyWhenWaiting ==
  [][\A c \in Callers :
       (CmdFirstWrite(c) /\ ~IdleWaiting) =>
          OnDemand(inbuf'[Len(inbuf')].cmd)]_vars

\* C17: whenever the counter is incremented, the file it is incremented
\* for is the song that the recorded previous status describes.
C17_IncrementsTheSongThatEnded ==
  [][(UpdateStep /\ incCalls' = incCalls + 1) =>
       Get(siSong, <<"file">>) = FileOf(siNum.songid)]_vars

\* C18: the dispatch loop never sends on (or closes) a channel that is
\* already closed, delivers to a subscription at most once, and a
\* subscription once inactive stays inactive, for every interest list.
C18_OneShotDispatch ==
  [][/\ idlePc = "dispatch" => idlePc' # "panicked"
     /\ \A i \in 1..Len(subscriptions) :
          /\ subscriptions'[i].delivered <= 1
          /\ ~subscriptions[i].active => ~subscriptions'[i].active]_vars

\* The counter of file f cannot be read as a number: the daemon does not
\* know the song (sticker get answers with an error), or the stored value
\* is not an integer.
BadCounter(f) ==
  \/ f \notin DOMAIN stickers
  \/ /\ stickers[f].has
     /\ Len(stickers[f].val) > 0
     /\ ~Atoi(stickers[f].val).ok

\* C19: when the increment fails before the write, no sticker set command
\* is written, the stored counters are unchanged, the update step ends
\* with the error (the tracker panics), and the recorded status and the
\* cached song are as before the step.
C19_FailedIncrementChangesNothing ==
  [][(UpdateStep /\ PlayedEdge /\ BadCounter(Get(siSong, <<"file">>))) =>
       /\ incCalls' = incCalls + 1
       /\ incRet'.err
       /\ trCmds' = <<"status", "sticker get">>
       /\ stickers' = stickers
       /\ siStatus' = siStatus
       /\ siSong' = siSong
       /\ trPc' = "dead"]_vars

\* The tracker stopped on a counter that is not a number, having written
\* no sticker set.
C19_Witness ==
  /\ trPc = "dead"
  /\ incRet.err
  /\ trCmds = <<"status", "sticker get">>
  /\ Get(siSong, <<"file">>) \in DOMAIN stickers
  /\ stickers[Get(siSong, <<"file">>)] = Sticker(<<"x">>)

\* ------------------------------------------- player notifications, end to end
\* RecordPlayCounts with its notification goroutine on the duplicate
\* connection: the daemon reports a "player" change to the idle loop, the
\* loop dispatches it to the goroutine's subscription, the goroutine hands
\* it to the main loop over idleCh and subscribes again.

\* mpdcIdle, err := ConnectDup(mpdc): a second connection to the same
\* daemon with its idle loop started and no subscriber yet.
ConnectDup ==
  /\ idlePc = "start"
  /\ subscriptions = <<>>

\* go func: mpdcIdle.Idle("player"), once the previous notification has
\* been taken by the main loop. The goroutine starts after the initial
\* status and current song have been fetched.
Notify_Subscribe ==
  /\ trPc \in {"select", "song"}
  /\ ntPc = "subscribe"
  /\ ~idleCh
  /\ Len(subscriptions) < MaxSubs
  /\ subscriptions' = Append(subscriptions, PlayerSubscription)
  /\ ntPc' = "wait"
  /\ UNCHANGED <<nextId, respTurn, inbuf, outbuf, sess, dIdle, idlePc, idleId,
                 idleChanged, dispI, dispN, dispActive, closePc, closeId,
                 quitPc, callPc, callId, callRead, calledInWait, closedInWait,
                 playedVars, stickerGetVars, trackVars, resyncVars,
                 roundTripVars, subscribeVars, dPending>>

\* The subscription's channel has a value: idleCh <- subsystem.
Notify_Receive ==
  /\ ntPc = "wait"
  /\ Len(subscriptions) > 0
  /\ subscriptions[Len(subscriptions)].delivered > 0
  /\ idleCh' = TRUE
  /\ ntPc' = "subscribe"
  /\ UNCHANGED <<pd, player, stickers, changes, siStatus, siSong, ignorePoll,
                 trPc, trigger, siNum, incCalls, incRet, incV0, incN, trCmds,
                 playedVars, stickerGetVars, connVars, resyncVars,
                 roundTripVars, subscribeVars, dPending>>

\* The player changes state. A session in wait mode is told at once; for
\* any other session the daemon remembers the change until the session
\* next sends "idle".
Notify_PlayerSetState(st) ==
  /\ changes < MaxChanges
  /\ st # player.state
  /\ player' = [songid |-> player.songid,
                elapsed |-> IF st = "stop" THEN 0 ELSE player.elapsed,
                state |-> st]
  /\ changes' = changes + 1
  /\ IF sess = "open" /\ dIdle # NoId
     THEN /\ outbuf' = outbuf \o <<KVLine(dIdle, "changed", "player"),
                                   OKLine(dIdle)>>
          /\ dIdle' = NoId
          /\ dPending' = FALSE
     ELSE /\ dPending' = TRUE
          /\ UNCHANGED <<outbuf, dIdle>>
  /\ UNCHANGED <<nextId, respTurn, inbuf, sess, idlePc, idleId, idleChanged,
                 dispI, dispN, dispActive, subscriptions, closePc, closeId,
                 quitPc, callPc, callId, callRead, calledInWait, closedInWait,
                 pd, stickers, idleCh, siStatus, siSong, ignorePoll, trPc,
                 trigger, siNum, incCalls, incRet, incV0, incN, trCmds,
                 playedVars, stickerGetVars, resyncVars, roundTripVars,
                 subscribeVars, ntPc>>

\* "idle" arrives at a session with a remembered change: reported at once.
Daemon_ReportPending ==
  /\ sess = "open"
  /\ dIdle # NoId
  /\ dPending
  /\ outbuf' = outbuf \o <<KVLine(dIdle, "changed", "player"), OKLine(dIdle)>>
  /\ dIdle' = NoId
  /\ dPending' = FALSE
  /\ UNCHANGED <<nextId, respTurn, inbuf, sess, idlePc, idleId, idleChanged,
                 dispI, dispN, dispActive, subscriptions, closePc, closeId,
                 quitPc, callPc, callId, callRead, calledInWait, closedInWait,
                 playedVars, stickerGetVars, trackVars, resyncVars,
                 roundTripVars, subscribeVars, ntPc>>

\* The idle loop while nobody calls Close.
idleRun ==
  \/ idle_Enter
  \/ idle_Read
  \/ idle_Dispatch
  \/ idle_DispatchEnd
  \/ idle_CondWait

\* The main loop of RecordPlayCounts, ticks aside.
TrackRun ==
  \/ Track_InitStatus
  \/ Track_InitSong
  \/ Track_Idle
  \/ Track_UpdateSong

\* No sticker is stored: the song never changes here, so no counter is
\* read or written.
NotifyInit ==
  /\ TrackerInit
  /\ ConnectDup
  /\ stickers = [f \in Files |-> NoSticker]

NotifyNext ==
  \/ idleRun
  \/ DaemonStep
  \/ Daemon_ReportPending
  \/ Notify_Subscribe
  \/ Notify_Receive
  \/ TrackRun
  \/ TickStep
  \/ \E st \in PlayerStates : Notify_PlayerSetState(st)

\* Scheduling: every goroutine that can run does run, a notification that
\* is ready on idleCh is taken by the main loop, and the daemon serves what
\* it has received. Ticks and what the player does are left to the
\* environment.
NotifySpec ==
  /\ NotifyInit
  /\ [][NotifyNext]_vars
  /\ WF_vars(idleRun)
  /\ WF_vars(DaemonStep \/ Daemon_ReportPending)
  /\ WF_vars(Notify_Subscribe \/ Notify_Receive)
  /\ WF_vars(TrackRun)

\* C20: every "player" change leads to an update step of the tracker, so
\* a tracker that is running does not stay with polling suppressed while
\* the player is playing.
C20_PlaybackUnsuppressesPolling ==
  (player.state = "play" /\ trPc = "select" /\ ignorePoll)
    ~> (~ignorePoll \/ player.state # "play" \/ trPc = "dead")

====
